---- MODULE Spec2Model ----
(***************************************************************************)
(* A model of the shared-stack coroutine scheduler of                      *)
(* src/coroutine/coroutine.c.                                              *)
(*                                                                         *)
(* The scheduler S is the variables co, nco, cap, running, stack and main  *)
(* (S->main).  The processor's current context is pc, sp and seg: pc says  *)
(* whether the main context or a coroutine body is executing, sp is the    *)
(* number of bytes the executing coroutine uses below the top of S->stack, *)
(* seg is the body's position (the number of yields it has passed).        *)
(* ucontext_t values are records of these three registers.                 *)
(*                                                                         *)
(* S->stack is tracked on its top MaxDepth bytes; bodies never go deeper   *)
(* (the code has no overflow detection, and an overflowing body is outside *)
(* this development).  A coroutine's first two bytes below the top are the *)
(* trampoline's local id and the ud argument handed to the body.           *)
(***************************************************************************)
EXTENDS Integers, Sequences, FiniteSets, TLC

\* ---- program constants -------------------------------------------------
STACK_SIZE == 1024 * 1024
DEFAULT_COROUTINE == 16

COROUTINE_DEAD == "Dead"
COROUTINE_READY == "Ready"
COROUTINE_RUNNING == "Running"
COROUTINE_SUSPEND == "Suspended"

\* ---- bounds ------------------------------------------------------------
\* registrations, first resumes and yields of a run (Spec)
MaxReg == 3
MaxStart == 2
MaxYield == 2
\* registrations, first resumes and yields of a logged run (SpecTrace)
MaxRegTrace == 2
MaxStartTrace == 2
MaxYieldTrace == 2
\* registrations, first resumes and yields of the growth scenario (SpecGrow)
MaxRegGrow == 17
MaxStartGrow == 1
MaxYieldGrow == 0
\* registrations, first resumes and yields of the isolation scenario (SpecIso)
MaxRegIso == 17
MaxStartIso == 2
MaxYieldIso == 1
\* registrations, first resumes and yields of a run to completion (SpecLive)
MaxRegLive == 3
MaxStartLive == 3
MaxYieldLive == 1
\* deepest stack use of a body, in bytes below the top of S->stack
MaxDepth == 3

\* values of a byte of S->stack that was never written
Bytes == {0, 1}
\* depth of a body that has just been entered: id and ud
BaseDepth == 2

NULL == [null |-> TRUE]
NoId == 0 - 1

VARIABLES co, nco, cap, running, stack, main,
          pc, sp, seg, aborted,
          lastOp, log, calls, nreg, budget

vars == <<co, nco, cap, running, stack, main, pc, sp, seg, aborted,
          lastOp, log, calls, nreg, budget>>

sched == <<co, nco, cap, running, stack, main>>
cpu == <<pc, sp, seg>>

\* the tracked part of S->stack, as offsets from S->stack
Tracked == (STACK_SIZE - MaxDepth)..(STACK_SIZE - 1)

\* offsets of the frame cells written by the trampoline
IdCell == STACK_SIZE - 1
UdCell == STACK_SIZE - 2

Context(p, s, g) == [pc |-> p, sp |-> s, seg |-> g]

Op(o, i, p) == [op |-> o, id |-> i, pre |-> p]

Logged(l, e) == IF budget.trace THEN Append(l, e) ELSE l

\* ---- pure helpers ------------------------------------------------------
_co_new(ud) ==
    [ud |-> ud, ctx |-> Context("none", 0, 0), cap |-> 0, size |-> 0,
     status |-> COROUTINE_READY, stack |-> <<>>, snap |-> <<>>]

coroutine_status(id) ==
    IF co[id] = NULL THEN COROUTINE_DEAD ELSE co[id].status

coroutine_running == running

\* ---- coroutine_open ----------------------------------------------------
InitSched ==
    /\ nco = 0
    /\ cap = DEFAULT_COROUTINE
    /\ running = -1
    /\ co = [i \in 0..(DEFAULT_COROUTINE - 1) |-> NULL]
    /\ stack \in [Tracked -> Bytes]
    /\ main = Context("none", 0, 0)
    /\ pc = "main"
    /\ sp = 0
    /\ seg = 0
    /\ aborted = FALSE
    /\ lastOp = Op("open", NoId, "none")
    /\ log = <<>>
    /\ calls = <<>>
    /\ nreg = 0

\* budget is the driver and the bodies: the registrations, first resumes and
\* yields still to come, the registrations made before the first resume, and
\* whether effects and resume calls are logged
Budget(r, s, y, a, t) ==
    [reg |-> r, start |-> s, yield |-> y, after |-> a, trace |-> t]

Init == InitSched /\ budget = Budget(MaxReg, MaxStart, MaxYield, 0, FALSE)

InitTrace ==
    InitSched /\ budget = Budget(MaxRegTrace, MaxStartTrace, MaxYieldTrace, 0, TRUE)

\* the driver of the growth scenario fills the table before its first resume
InitGrow ==
    InitSched /\ budget = Budget(MaxRegGrow, MaxStartGrow, MaxYieldGrow,
                                 DEFAULT_COROUTINE, FALSE)

\* the driver of the isolation scenario fills all slots but one before its
\* first resume
InitIso ==
    InitSched /\ budget = Budget(MaxRegIso, MaxStartIso, MaxYieldIso,
                                 DEFAULT_COROUTINE - 1, FALSE)

\* the driver of a run to completion may start every coroutine it registers
InitLive ==
    InitSched /\ budget = Budget(MaxRegLive, MaxStartLive, MaxYieldLive, 0, FALSE)

\* a failed assert: the process ends
Abort(op) ==
    /\ aborted' = TRUE
    /\ lastOp' = op
    /\ UNCHANGED <<sched, cpu, log, calls, nreg, budget>>

\* ---- coroutine_new -----------------------------------------------------
TableFull_bug == nco > cap

TableFull == nco >= cap

GrowTable_bug(c) ==
    [i \in 0..(2 * cap - 1) |->
        IF i < cap - 1 THEN co[i] ELSE IF i = cap THEN c ELSE NULL]

\* the table after realloc and memset, with c in the first new slot
GrowTable(c) ==
    [i \in 0..(2 * cap - 1) |->
        IF i < cap THEN co[i] ELSE IF i = cap THEN c ELSE NULL]

ProbeId_bug(i) == i % cap

ProbeId(i) == (i + nco) % cap

SlotFree_bug(id) == TRUE

SlotFree(id) == co[id] = NULL

\* the scan positions i at which the loop stops
ScanHits == {i \in 0..(cap - 1) : SlotFree(ProbeId(i))}

FirstHit == CHOOSE i \in ScanHits : \A j \in ScanHits : i <= j

\* ++S->nco
CountAfterNew_bug == nco

CountAfterNew == nco + 1

Register ==
    /\ ~aborted
    /\ budget.reg > 0
    /\ LET c == _co_new(nreg + 1) IN
       IF TableFull
       THEN /\ co' = GrowTable(c)
            /\ cap' = cap * 2
            /\ nco' = CountAfterNew
            /\ lastOp' = Op("new", cap, COROUTINE_DEAD)
            /\ aborted' = FALSE
       ELSE IF ScanHits # {}
       THEN LET id == ProbeId(FirstHit) IN
            /\ co' = [co EXCEPT ![id] = c]
            /\ nco' = CountAfterNew
            /\ cap' = cap
            /\ lastOp' = Op("new", id, coroutine_status(id))
            /\ aborted' = FALSE
       ELSE /\ aborted' = TRUE
            /\ lastOp' = Op("new", NoId, "none")
            /\ UNCHANGED <<co, nco, cap>>
    /\ nreg' = nreg + 1
    /\ budget' = [budget EXCEPT !.reg = @ - 1]
    /\ UNCHANGED <<running, stack, main, cpu, log, calls>>

\* ---- coroutine_resume --------------------------------------------------
NoneRunning_bug == TRUE

NoneRunning == running = -1

InRange(id) == id >= 0 /\ id < cap

SaveMain == Context(pc, sp, seg)

\* mainfunc up to the call of C->func: the local id and the argument ud
MainfuncEnter(id, C) ==
    [o \in Tracked |->
        IF o = IdCell THEN id ELSE IF o = UdCell THEN C.ud ELSE stack[o]]

RestoreOffset_bug(C) == STACK_SIZE - C.cap

RestoreOffset(C) == STACK_SIZE - C.size

\* memcpy(S->stack + STACK_SIZE - C->size, C->stack, C->size)
RestoreStack(C) ==
    [o \in Tracked |->
        IF o >= RestoreOffset(C) /\ o < RestoreOffset(C) + C.size
        THEN C.stack[o - RestoreOffset(C) + 1]
        ELSE stack[o]]

\* the status resume gives the coroutine it switches to
ResumedStatus_bug == COROUTINE_READY

ResumedStatus == COROUTINE_RUNNING

ResumeReady(id) ==
    LET C == co[id] IN
    /\ budget.start > 0
    /\ nreg >= budget.after
    /\ co' = [co EXCEPT ![id].status = ResumedStatus]
    /\ running' = id
    /\ main' = SaveMain
    /\ stack' = MainfuncEnter(id, C)
    /\ pc' = "seg"
    /\ sp' = BaseDepth
    /\ seg' = 0
    /\ calls' = Logged(calls, C.ud)
    /\ lastOp' = Op("resume", id, COROUTINE_READY)
    /\ budget' = [budget EXCEPT !.start = @ - 1]
    /\ UNCHANGED <<nco, cap, aborted, log, nreg>>

ResumeSuspended(id) ==
    LET C == co[id] IN
    /\ stack' = RestoreStack(C)
    /\ running' = id
    /\ co' = [co EXCEPT ![id].status = ResumedStatus]
    /\ main' = SaveMain
    /\ pc' = "seg"
    /\ sp' = C.ctx.sp
    /\ seg' = C.ctx.seg
    /\ calls' = Logged(calls, C.ud)
    /\ lastOp' = Op("resume", id, COROUTINE_SUSPEND)
    /\ UNCHANGED <<nco, cap, aborted, log, nreg, budget>>

\* the slot is empty: resume returns at once
ResumeEmpty_bug(id) == Abort(Op("resume", id, COROUTINE_DEAD))

ResumeEmpty(id) ==
    /\ lastOp' = Op("resume", id, COROUTINE_DEAD)
    /\ UNCHANGED <<sched, cpu, aborted, log, calls, nreg, budget>>

Resume(id) ==
    /\ ~aborted
    /\ IF ~NoneRunning THEN Abort(Op("resume", NoId, "busy"))
       ELSE IF ~InRange(id) THEN Abort(Op("resume", NoId, "range"))
       ELSE IF co[id] = NULL THEN ResumeEmpty(id)
       ELSE IF co[id].status = COROUTINE_READY THEN ResumeReady(id)
       ELSE IF co[id].status = COROUTINE_SUSPEND THEN ResumeSuspended(id)
       ELSE Abort(Op("resume", NoId, co[id].status))

\* ---- coroutine_yield ---------------------------------------------------
\* top - &dummy: the bytes in use below the top of S->stack
LiveBytes == sp

\* _save_stack: grow the private buffer if needed, then copy the live bytes
NeedGrow_bug(C) == C.cap # LiveBytes

NeedGrow(C) == C.cap < LiveBytes

SavedCap(C) == IF NeedGrow(C) THEN LiveBytes ELSE C.cap

SavedSize(C) == LiveBytes

SavedBuffer_bug(C) ==
    [k \in 1..SavedCap(C) |->
        IF k <= SavedSize(C) THEN stack[STACK_SIZE - SavedCap(C) + k - 1]
        ELSE C.stack[k]]

SavedBuffer(C) ==
    [k \in 1..SavedCap(C) |->
        IF k <= SavedSize(C) THEN stack[STACK_SIZE - LiveBytes + k - 1]
        ELSE C.stack[k]]

\* the live bytes as they lie in S->stack when the coroutine yields
LiveStack == [o \in (STACK_SIZE - sp)..(STACK_SIZE - 1) |-> stack[o]]

\* the status yield leaves the coroutine in
YieldedStatus_bug == COROUTINE_READY

YieldedStatus_bug2 == COROUTINE_RUNNING

YieldedStatus == COROUTINE_SUSPEND

\* S->running once the coroutine has given up control
RunningAfterYield_bug == running

RunningAfterYield == NoId

Yield ==
    /\ ~aborted
    /\ pc # "seg"
    /\ IF running < 0 THEN Abort(Op("yield", NoId, "none"))
       ELSE IF ~(STACK_SIZE - sp > 0) THEN Abort(Op("yield", NoId, "stack"))
       ELSE IF ~(LiveBytes <= STACK_SIZE) THEN Abort(Op("yield", NoId, "size"))
       ELSE LET id == running
                C == co[id] IN
            /\ budget.yield > 0
            /\ co' = [co EXCEPT ![id] =
                        [C EXCEPT !.cap = SavedCap(C),
                                  !.size = SavedSize(C),
                                  !.stack = SavedBuffer(C),
                                  !.status = YieldedStatus,
                                  !.ctx = Context("seg", sp, seg + 1),
                                  !.snap = LiveStack]]
            /\ running' = RunningAfterYield
            /\ pc' = main.pc
            /\ sp' = main.sp
            /\ seg' = main.seg
            /\ lastOp' = Op("yield", id, COROUTINE_RUNNING)
            /\ budget' = [budget EXCEPT !.yield = @ - 1]
            /\ UNCHANGED <<nco, cap, stack, main, aborted, log, calls, nreg>>

\* ---- the body of a coroutine -------------------------------------------
\* the body's side effect at the start of a run segment
BodyLog ==
    /\ ~aborted
    /\ pc = "seg"
    /\ log' = Logged(log, <<stack[UdCell], seg>>)
    /\ pc' = "body"
    /\ UNCHANGED <<sched, sp, seg, aborted, lastOp, calls, nreg, budget>>

\* a body fills its frames with the user data it was registered with
BodyBytes == {stack[UdCell]}

BodyPush(b) ==
    /\ ~aborted
    /\ pc = "body"
    /\ sp < MaxDepth
    /\ stack' = [stack EXCEPT ![STACK_SIZE - sp - 1] = b]
    /\ sp' = sp + 1
    /\ UNCHANGED <<co, nco, cap, running, main, pc, seg, aborted,
                   lastOp, log, calls, nreg, budget>>

BodyPop ==
    /\ ~aborted
    /\ pc = "body"
    /\ sp > BaseDepth
    /\ sp' = sp - 1
    /\ UNCHANGED <<sched, pc, seg, aborted, lastOp, log, calls, nreg, budget>>

\* ---- mainfunc, after C->func returns -----------------------------------
\* the trampoline's local id, read back from its frame
FrameId_bug == stack[UdCell]

FrameId == stack[IdCell]

\* --S->nco
CountAfterReturn_bug == nco

CountAfterReturn == nco - 1

RunningAfterReturn_bug == running

RunningAfterReturn == NoId

Return ==
    /\ ~aborted
    /\ pc = "body"
    /\ sp = BaseDepth
    /\ LET id == FrameId IN
       /\ co' = [co EXCEPT ![id] = NULL]
       /\ lastOp' = Op("return", id, COROUTINE_RUNNING)
    /\ nco' = CountAfterReturn
    /\ running' = RunningAfterReturn
    /\ pc' = main.pc
    /\ sp' = main.sp
    /\ seg' = main.seg
    /\ UNCHANGED <<cap, stack, main, aborted, log, calls, nreg, budget>>

\* ---- specifications ----------------------------------------------------
\* the ids the driver tries: one below the table, every slot handed out so
\* far, one slot never handed out, and one past the table
ResumeIds == {i \in (0 - 1)..cap : i <= nreg \/ i = cap}

Next ==
    \/ Register
    \/ \E id \in ResumeIds : Resume(id)
    \/ Yield
    \/ BodyLog
    \/ \E b \in BodyBytes : BodyPush(b)
    \/ BodyPop
    \/ Return

Spec == Init /\ [][Next]_vars

SpecTrace == InitTrace /\ [][Next]_vars

SpecGrow == InitGrow /\ [][Next]_vars

\* the driver of the isolation scenario runs the coroutines of the last
\* slots of the first table
ResumeIdsIso == {i \in ResumeIds : i >= DEFAULT_COROUTINE - 2}

NextIso ==
    \/ Register
    \/ \E id \in ResumeIdsIso : Resume(id)
    \/ Yield
    \/ BodyLog
    \/ \E b \in BodyBytes : BodyPush(b)
    \/ BodyPop
    \/ Return

SpecIso == InitIso /\ [][NextIso]_vars

\* a run to completion: only the driver registers, the driver resumes
\* coroutines that are not Dead, and only a coroutine yields
DriverRegister == pc = "main" /\ Register

DriverResume(id) == running = -1 /\ co[id] # NULL /\ Resume(id)

BodyYield == running # -1 /\ Yield

NextLive ==
    \/ DriverRegister
    \/ \E id \in 0..(cap - 1) : DriverResume(id)
    \/ BodyYield
    \/ BodyLog
    \/ \E b \in BodyBytes : BodyPush(b)
    \/ BodyPop
    \/ Return

\* the driver keeps resuming while a coroutine can be resumed; a body keeps
\* running, unwinds from every depth it reaches and returns
FairLive ==
    /\ WF_vars(\E id \in 0..(cap - 1) : DriverResume(id))
    /\ WF_vars(BodyLog)
    /\ \A d \in (BaseDepth + 1)..MaxDepth : SF_vars(BodyPop /\ sp = d)
    /\ SF_vars(Return)

SpecLive == InitLive /\ [][NextLive]_vars /\ FairLive

\* ---- vocabulary of the properties --------------------------------------
Slots == 0..(cap - 1)

Live == {i \in Slots : co[i] # NULL}

\* the slots holding the coroutine registered with user data u
SlotsOf(u) == {i \in Live : co[i].ud = u}

Alive(u) == SlotsOf(u) # {}

\* the lifecycle state of the coroutine registered with user data u
StatusOfUd(u) ==
    IF u > nreg THEN "Unborn"
    ELSE IF Alive(u) THEN coroutine_status(CHOOSE i \in SlotsOf(u) : TRUE)
    ELSE COROUTINE_DEAD

\* a scheduler call other than the one before it has just been made
Called(o) == lastOp' # lastOp /\ lastOp'.op = o

\* the number of entries of l[1..k-1] equal to u
RECURSIVE Earlier(_, _, _)
Earlier(l, k, u) ==
    IF k <= 1 THEN 0
    ELSE Earlier(l, k - 1, u) + (IF l[k - 1] = u THEN 1 ELSE 0)

\* ---- C1 ----------------------------------------------------------------
\* C1: the id coroutine_new returns names a slot that was empty (Dead) when
\* it was called, so it differs from the id of every live coroutine, and an
\* id comes back only after its previous holder was cleared; the slot then
\* holds the new coroutine and no two live slots hold the same coroutine.
Thm_C1 ==
    /\ (lastOp.op = "new" /\ ~aborted) =>
          /\ lastOp.pre = COROUTINE_DEAD
          /\ InRange(lastOp.id)
          /\ co[lastOp.id] # NULL
          /\ co[lastOp.id].ud = nreg
    /\ \A i \in Live : \A j \in Live : co[i].ud = co[j].ud => i = j

\* id 1 is handed out a second time, after its first holder returned,
\* while the coroutine of id 0 is live
Wit_C1 ==
    /\ lastOp = Op("new", 1, COROUTINE_DEAD)
    /\ nreg = 3
    /\ co[1].ud = 3
    /\ co[0] # NULL
    /\ co[0].ud = 1

Thm_C3 ==
    [][(running # -1 /\ Called("resume"))
          => (aborted' /\ UNCHANGED <<sched, cpu>>)]_vars

\* a body resumed another, suspended coroutine and the process ended
Wit_C3 ==
    /\ aborted
    /\ lastOp = Op("resume", NoId, "busy")
    /\ pc = "body"
    /\ \E i \in Live : co[i].status = COROUTINE_SUSPEND

\* ---- C4 ----------------------------------------------------------------
Lifecycle ==
    {<<COROUTINE_DEAD, COROUTINE_READY>>,
     <<COROUTINE_READY, COROUTINE_RUNNING>>,
     <<COROUTINE_RUNNING, COROUTINE_SUSPEND>>,
     <<COROUTINE_SUSPEND, COROUTINE_RUNNING>>,
     <<COROUTINE_RUNNING, COROUTINE_DEAD>>}

\* C4: a registered id reads Ready; a resumed coroutine reads Running and is
\* runningId until it yields or returns; after a yield it reads Suspended,
\* after the return of its entry function Dead; the status of a slot changes
\* only by a registration into the empty slot (Dead->Ready) and, for the
\* coroutine it holds, Ready->Running, Running->Suspended,
\* Suspended->Running, Running->Dead.
Thm_C4 ==
    [][/\ \A i \in Slots :
             \/ co'[i] = co[i]
             \/ /\ <<coroutine_status(i), coroutine_status(i)'>> \in Lifecycle
                /\ (co[i] # NULL /\ co'[i] # NULL) => co'[i].ud = co[i].ud
             \/ /\ coroutine_status(i)' = coroutine_status(i)
                /\ co'[i].ud = co[i].ud
       /\ (Called("new") /\ ~aborted') =>
             coroutine_status(lastOp.id)' = COROUTINE_READY
       /\ (Called("resume") /\ lastOp'.pre \in {COROUTINE_READY, COROUTINE_SUSPEND}) =>
             /\ coroutine_status(lastOp.id)' = COROUTINE_RUNNING
             /\ coroutine_running' = lastOp'.id
       /\ (Called("yield") /\ ~aborted') =>
             coroutine_status(lastOp.id)' = COROUTINE_SUSPEND
       /\ Called("return") =>
             coroutine_status(lastOp.id)' = COROUTINE_DEAD
       /\ (running # -1 /\ ~Called("yield") /\ ~Called("return")) =>
             /\ coroutine_running' = running
             /\ coroutine_status(running)' = COROUTINE_RUNNING]_vars

\* a coroutine in its third run segment, after two yields
Wit_C4 ==
    /\ running # -1
    /\ coroutine_status(running) = COROUTINE_RUNNING
    /\ seg = 2
    /\ pc = "body"

\* ---- C5 ----------------------------------------------------------------
\* C5: when a suspended coroutine has been resumed, the bytes of S->stack
\* from its stack position at the yield up to the top of the region are the
\* bytes that lay there at the yield, at the same offsets, and its stack
\* position is the one it yielded at.
Thm_C5 ==
    (lastOp.op = "resume" /\ lastOp.pre = COROUTINE_SUSPEND /\ pc = "seg") =>
        LET C == co[lastOp.id] IN
        /\ DOMAIN C.snap = (STACK_SIZE - sp)..(STACK_SIZE - 1)
        /\ \A o \in DOMAIN C.snap : stack[o] = C.snap[o]
        /\ sp = C.size

\* the first coroutine yielded three bytes deep, the second then ran three
\* bytes deep with another byte in the same place and yielded, and the
\* first was resumed
Wit_C5 ==
    /\ calls = <<1, 2, 1>>
    /\ pc = "seg"
    /\ lastOp = Op("resume", 0, COROUTINE_SUSPEND)
    /\ co[0].size = 3
    /\ co[1] # NULL
    /\ co[1].status = COROUTINE_SUSPEND
    /\ co[1].size = 3
    /\ co[1].stack[1] # co[0].stack[1]

\* ---- C6 ----------------------------------------------------------------
\* C6: S->running is -1 or the index of a non-empty slot of the table whose
\* coroutine has status Running.
Thm_C6 ==
    \/ running = -1
    \/ /\ InRange(running)
       /\ co[running] # NULL
       /\ co[running].status = COROUTINE_RUNNING

\* a coroutine runs while another is suspended and a third is ready
Wit_C6 ==
    /\ running # -1
    /\ pc = "body"
    /\ \E i \in Live : co[i].status = COROUTINE_SUSPEND
    /\ \E i \in Live : co[i].status = COROUTINE_READY

\* ---- C7 ----------------------------------------------------------------
\* C7: a coroutine has status Running only if S->running is its id; so at
\* most one coroutine is Running, and none while S->running is -1.
Thm_C7 ==
    /\ \A i \in Live : co[i].status = COROUTINE_RUNNING => running = i
    /\ Cardinality({i \in Live : co[i].status = COROUTINE_RUNNING}) <= 1

\* no coroutine runs, after one has yielded and another has returned
Wit_C7 ==
    /\ running = -1
    /\ pc = "main"
    /\ nco = 2
    /\ nreg = 3
    /\ \E i \in Live : co[i].status = COROUTINE_SUSPEND

\* ---- C8 ----------------------------------------------------------------
\* C8: the bodies' log entries come in the order of the driver's resume
\* calls: the k-th entry is made by the coroutine named in the k-th call and
\* in that coroutine's next segment (its segment number is the number of
\* earlier calls that named it); only the last call may still lack its entry.
Thm_C8 ==
    /\ Len(log) = IF pc = "seg" THEN Len(calls) - 1 ELSE Len(calls)
    /\ \A k \in 1..Len(log) : log[k] = <<calls[k], Earlier(calls, k, calls[k])>>

\* two coroutines that each yielded once and returned, interleaved
Wit_C8 ==
    /\ calls = <<1, 2, 2, 1>>
    /\ log = <<<<1, 0>>, <<2, 0>>, <<2, 1>>, <<1, 1>>>>
    /\ nco = 0
    /\ pc = "main"

\* ---- C9 ----------------------------------------------------------------
EffectA0 == <<1, 0>>
EffectB == <<2, 0>>
EffectA1 == <<1, 1>>

Stress == nreg = DEFAULT_COROUTINE + 1 /\ budget.start = MaxStartGrow

\* C10: coroutine_new called with nco = cap doubles cap, puts the new
\* coroutine at index (old cap) and returns that index, keeps every old
\* slot and leaves the other new slots empty.  After 17 registrations on a
\* fresh scheduler the ids are 0..16, cap is 32 and all 17 coroutines are
\* Ready; a resume of any of them then runs that coroutine's body.
Thm_C10 ==
    /\ [][(nco = cap /\ Called("new")) =>
             /\ ~aborted'
             /\ cap' = 2 * cap
             /\ nco' = nco + 1
             /\ lastOp'.id = cap
             /\ DOMAIN co' = 0..(2 * cap - 1)
             /\ co'[cap] = _co_new(nreg')
             /\ \A i \in 0..(cap - 1) : co'[i] = co[i]
             /\ \A i \in (cap + 1)..(2 * cap - 1) : co'[i] = NULL]_vars
    /\ [](Stress =>
             /\ cap = 2 * DEFAULT_COROUTINE
             /\ nco = DEFAULT_COROUTINE + 1
             /\ Live = 0..DEFAULT_COROUTINE
             /\ \A i \in Live : co[i] = _co_new(i + 1))
    /\ [][(Stress /\ Called("resume") /\ InRange(lastOp'.id) /\ co[lastOp'.id] # NULL) =>
             /\ running' = lastOp'.id
             /\ co'[running'].status = COROUTINE_RUNNING
             /\ stack'[UdCell] = co[running'].ud
             /\ \A i \in Live \ {running'} : co'[i] = co[i]]_vars

\* the coroutine in the first slot of the doubled table runs
Wit_C10 ==
    /\ cap = 2 * DEFAULT_COROUTINE
    /\ nreg = DEFAULT_COROUTINE + 1
    /\ lastOp = Op("resume", DEFAULT_COROUTINE, COROUTINE_READY)
    /\ running = DEFAULT_COROUTINE
    /\ stack[UdCell] = DEFAULT_COROUTINE + 1
    /\ \A i \in 0..(DEFAULT_COROUTINE - 1) : co[i] = _co_new(i + 1)

\* ---- C11 ---------------------------------------------------------------
\* C11: S->nco is the number of non-empty slots of the table, and it lies
\* between 0 and the capacity.
Thm_C11 ==
    /\ nco = Cardinality(Live)
    /\ 0 <= nco
    /\ nco <= cap
    /\ DOMAIN co = Slots

\* two of three coroutines are live after the middle one has returned
Wit_C11 ==
    /\ lastOp.op = "return"
    /\ lastOp.id = 1
    /\ nreg = 3
    /\ nco = 2
    /\ Live = {0, 2}

\* ---- C12 ---------------------------------------------------------------
\* C12: coroutine_yield called while no coroutine runs fails its assert and
\* changes nothing; called by the running coroutine it marks that coroutine
\* Suspended, sets S->running to -1 and switches to the main context, which
\* continues after the coroutine_resume call that started the segment.
Thm_C12 ==
    [][Called("yield") =>
          IF running = -1
          THEN /\ aborted'
               /\ UNCHANGED <<sched, cpu>>
          ELSE /\ ~aborted'
               /\ lastOp'.id = running
               /\ coroutine_status(running) = COROUTINE_RUNNING
               /\ co'[running] # NULL
               /\ co'[running].status = COROUTINE_SUSPEND
               /\ coroutine_running' = -1
               /\ pc' = "main"
               /\ <<pc', sp', seg'>> = <<main.pc, main.sp, main.seg>>
               /\ main' = main
               /\ nco' = nco
               /\ cap' = cap]_vars

\* the second coroutine has yielded back to the main context
Wit_C12 ==
    /\ lastOp = Op("yield", 1, COROUTINE_RUNNING)
    /\ co[1] # NULL
    /\ co[1].status = COROUTINE_SUSPEND
    /\ co[1].size = MaxDepth
    /\ running = -1
    /\ pc = "main"

\* ---- C13 ---------------------------------------------------------------
\* the scan positions of coroutine_new at which the probed slot is empty
EmptyProbes == {i \in 0..(cap - 1) : co[(nco + i) % cap] = NULL}

\* C13: when the count is below the capacity, coroutine_new puts the new
\* coroutine, Ready, in the first empty slot in the probe order
\* (count + i) mod capacity for i = 0 .. capacity - 1 and returns that slot's
\* index; the capacity and every other slot are unchanged and the count
\* grows by one.
Thm_C13 ==
    [][(nco < cap /\ Called("new")) =>
          /\ ~aborted'
          /\ EmptyProbes # {}
          /\ \E i \in EmptyProbes :
                /\ \A j \in EmptyProbes : i <= j
                /\ lastOp'.id = (nco + i) % cap
          /\ co' = [co EXCEPT ![lastOp'.id] = _co_new(nreg')]
          /\ cap' = cap
          /\ nco' = nco + 1
          /\ UNCHANGED <<running, stack, main, cpu>>]_vars

\* the scan starts at slot 1, finds it taken and stops at slot 2
Wit_C13 ==
    /\ lastOp = Op("new", 2, COROUTINE_DEAD)
    /\ nreg = 3
    /\ nco = 2
    /\ Live = {1, 2}

\* ---- C14 ---------------------------------------------------------------
\* C14: coroutine_new never fails: whenever the count is below the capacity
\* the table has an empty slot for the scan to find, so assert(0) is not
\* reached, and the id returned is a slot of the table, also when the call
\* is made by a running coroutine.
Thm_C14 ==
    /\ nco < cap => \E i \in Slots : co[i] = NULL
    /\ lastOp.op = "new" =>
          /\ ~aborted
          /\ lastOp.id >= 0
          /\ lastOp.id < cap
          /\ co[lastOp.id] # NULL
          /\ co[lastOp.id].ud = nreg

\* a registration into a table with one empty slot: the scan starts
\* at the last slot, wraps around and stops at the slot of a dead coroutine
Wit_C14 ==
    /\ lastOp = Op("new", 0, COROUTINE_DEAD)
    /\ nreg = DEFAULT_COROUTINE + 1
    /\ cap = DEFAULT_COROUTINE
    /\ nco = DEFAULT_COROUTINE
    /\ pc = "main"

\* ---- C15 ---------------------------------------------------------------
\* C15: when the entry function of the running coroutine returns, mainfunc
\* clears exactly that coroutine's slot, decrements the count, sets
\* S->running to -1, and control continues in the main context after the
\* coroutine_resume call; no other slot, and so no other coroutine's status
\* or saved stack, is changed.
Thm_C15 ==
    [][Called("return") =>
          /\ running # -1
          /\ coroutine_status(running) = COROUTINE_RUNNING
          /\ lastOp'.id = running
          /\ co' = [co EXCEPT ![running] = NULL]
          /\ nco' = nco - 1
          /\ coroutine_running' = -1
          /\ pc' = "main"
          /\ <<pc', sp', seg'>> = <<main.pc, main.sp, main.seg>>
          /\ ~aborted'
          /\ UNCHANGED <<cap, main, stack>>]_vars

\* the second coroutine returns while the first one stays suspended with
\* its saved stack
Wit_C15 ==
    /\ lastOp = Op("return", 1, COROUTINE_RUNNING)
    /\ co[1] = NULL
    /\ co[0] # NULL
    /\ co[0].status = COROUTINE_SUSPEND
    /\ co[0].size = MaxDepth
    /\ nco = 1
    /\ running = -1
    /\ pc = "main"

\* ---- C16 ---------------------------------------------------------------
\* C16: control alternates between the main context and one coroutine at a
\* time: a run segment starts from a coroutine_resume made in the main
\* context and ends with control back in the main context; between
\* segments the main context has control and S->running is -1.
Thm_C16 ==
    /\ pc = "main" <=> running = -1
    /\ running # -1 =>
          /\ main = Context("main", 0, 0)
          /\ coroutine_status(running) = COROUTINE_RUNNING
          /\ lastOp.op \in {"resume", "new"}
    /\ (lastOp.op = "resume" /\ lastOp.pre \in {COROUTINE_READY, COROUTINE_SUSPEND}) =>
          /\ running = lastOp.id
          /\ pc # "main"
    /\ (lastOp.op \in {"yield", "return"} /\ ~aborted) =>
          /\ pc = "main"
          /\ running = -1
    /\ \A i \in Live : co[i].status = COROUTINE_RUNNING => i = running

\* a second segment of the first coroutine, after a segment of the second
Wit_C16 ==
    /\ lastOp = Op("resume", 0, COROUTINE_SUSPEND)
    /\ running = 0
    /\ pc = "body"
    /\ seg = 1
    /\ co[1] # NULL
    /\ co[1].status = COROUTINE_SUSPEND
    /\ main = Context("main", 0, 0)

\* ---- C17 ---------------------------------------------------------------
\* C17: the capacity of a coroutine's private buffer never decreases while
\* the coroutine lives; after every yield it is at least the saved size,
\* which is the number of bytes between the stack position at the yield and
\* the top of the shared stack; a new buffer is allocated only when the
\* capacity is smaller than the size needed.
Thm_C17 ==
    /\ [][\A i \in Slots :
             (co[i] # NULL /\ co'[i] # NULL /\ co'[i].ud = co[i].ud) =>
                /\ co'[i].cap >= co[i].cap
                /\ co'[i].cap # co[i].cap =>
                      /\ Called("yield")
                      /\ i = running
                      /\ co[i].cap < sp
                      /\ co'[i].cap = sp]_vars
    /\ [][(Called("yield") /\ running # -1) =>
             /\ co'[running].size = sp
             /\ co'[running].cap >= co'[running].size
             /\ Len(co'[running].stack) = co'[running].cap
             /\ co[running].cap >= sp => co'[running].cap = co[running].cap]_vars
    /\ [](\A i \in Live :
             /\ co[i].cap >= co[i].size
             /\ co[i].status = COROUTINE_SUSPEND => co[i].size = co[i].ctx.sp)

\* a coroutine that yielded at the deepest point yields again higher up:
\* the buffer is kept and is larger than the saved size
Wit_C17 ==
    /\ lastOp.op = "yield"
    /\ ~aborted
    /\ co[lastOp.id].cap = MaxDepth
    /\ co[lastOp.id].size = BaseDepth
    /\ co[lastOp.id].ctx.seg = 2

\* ---- C18 ---------------------------------------------------------------
\* C18: while a coroutine is Suspended, no operation on other coroutines
\* (registration, table growth, resume, yield or return of another
\* coroutine) changes its id, its status, its saved stack bytes or its
\* saved size; these change only when the coroutine itself is resumed.
Thm_C18 ==
    [][\A i \in Slots :
          (/\ co[i] # NULL
           /\ co[i].status = COROUTINE_SUSPEND
           /\ ~(Called("resume") /\ lastOp'.id = i)) =>
             /\ i \in DOMAIN co'
             /\ co'[i] = co[i]]_vars

\* another coroutine, running, has doubled the table while the coroutine of
\* the last slot of the first table is suspended
Wit_C18 ==
    /\ lastOp = Op("new", DEFAULT_COROUTINE, COROUTINE_DEAD)
    /\ cap = 2 * DEFAULT_COROUTINE
    /\ running = DEFAULT_COROUTINE - 2
    /\ co[DEFAULT_COROUTINE - 1].status = COROUTINE_SUSPEND
    /\ co[DEFAULT_COROUTINE - 1].stack = <<DEFAULT_COROUTINE, DEFAULT_COROUTINE, DEFAULT_COROUTINE - 1>>

\* ---- C19 ---------------------------------------------------------------
\* C19: a registration made by the body of the running coroutine, also one
\* that doubles the table, leaves S->running and the running coroutine's
\* slot and status unchanged and never returns the running coroutine's own
\* id; when that body later returns, mainfunc clears the running
\* coroutine's own slot and not a newly registered one.
Thm_C19 ==
    /\ [][(running # -1 /\ Called("new")) =>
             /\ ~aborted'
             /\ running' = running
             /\ lastOp'.id # running
             /\ running \in DOMAIN co'
             /\ co'[running] = co[running]
             /\ co'[running].status = COROUTINE_RUNNING
             /\ UNCHANGED <<stack, main, cpu>>]_vars
    /\ [][(Called("return") /\ lastOp.op = "new") =>
             /\ lastOp'.id = running
             /\ lastOp.id # running
             /\ co'[running] = NULL
             /\ co'[lastOp.id] = _co_new(nreg)
             /\ \A i \in Slots \ {running} : co'[i] = co[i]]_vars

\* the coroutine of the last slot of the first table doubled the table from
\* its body and then returned: its slot is empty, the new one is Ready
Wit_C19 ==
    /\ lastOp = Op("return", DEFAULT_COROUTINE - 1, COROUTINE_RUNNING)
    /\ cap = 2 * DEFAULT_COROUTINE
    /\ nco = DEFAULT_COROUTINE
    /\ co[DEFAULT_COROUTINE - 1] = NULL
    /\ co[DEFAULT_COROUTINE] = _co_new(DEFAULT_COROUTINE + 1)

\* ---- C20 ---------------------------------------------------------------
\* C20: if every body returns after finitely many yields and registers no
\* coroutine, and the driver keeps resuming some coroutine that is not Dead
\* whenever none is running and one exists, then from some point on every
\* registered coroutine is Dead: the count is 0, every slot is empty and
\* S->running is -1.
Thm_C20 ==
    <>[](/\ nco = 0
         /\ \A i \in Slots : co[i] = NULL
         /\ \A u \in 1..nreg : StatusOfUd(u) = COROUTINE_DEAD
         /\ running = -1
         /\ ~aborted)

\* every coroutine the driver could register has run to its end, one of
\* them after a yield
Wit_C20 ==
    /\ nreg = MaxRegLive
    /\ budget.start = 0
    /\ budget.yield = 0
    /\ lastOp.op = "return"
    /\ nco = 0
    /\ Live = {}
    /\ running = -1
====
